---- MODULE Spec2Model ----
(***************************************************************************)
(* tslint-language-service: a TypeScript language-service plugin that      *)
(* appends tslint failures to the host's semantic diagnostics and offers   *)
(* tslint quick fixes.  Model of out/src/index.js.                         *)
(*                                                                         *)
(* Optional values (null / undefined) are sequences of length 0 or 1.      *)
(* A file path is the sequence of its segments.  A JavaScript Map is the   *)
(* sequence of its [key, value] entries in insertion order.                *)
(***************************************************************************)
EXTENDS Integers, Sequences, FiniteSets, TLC

VARIABLES
    codeFixActions,   \* Map fileName -> Map key -> problem   (index.js:8)
    configCache,      \* the single-slot configuration cache  (index.js:10)
    config,           \* info.config of the session serving the host's calls
    consoleWarn,      \* the global console.warn
    last,             \* the most recent call: its arguments, what the host and
                      \* the engine answered, and what the plugin returned
    lastFound,        \* per file: the failures the most recent
                      \* getSemanticDiagnostics call on it found
    queries,          \* the file path getConfiguration was last asked for, and
                      \* the one it last returned a configuration for
    documentFixes,    \* overlap resolution: the registry entry being resolved
    sortedFailures,   \* overlap resolution: the sorted failures
    keptFailures,     \* overlap resolution: the failures whose fix was taken
    nonOverlapping,   \* overlap resolution: the accumulated replacements
    pc                \* overlap resolution: "idle", "ready" or "done"

vars == <<codeFixActions, configCache, config, consoleWarn, last, lastFound,
          queries, documentFixes, sortedFailures, keptFailures, nonOverlapping, pc>>

pluginVars == <<codeFixActions, configCache, config, consoleWarn, last, lastFound,
                queries>>
overlapVars == <<documentFixes, sortedFailures, keptFailures, nonOverlapping, pc>>

----------------------------------------------------------------------------
(* Bounds *)

\* overlap resolution: the largest offset of the file, and the most
\* failures recorded for one file
MaxPos == 1
MaxFixes == 3

TSLINT_ERROR_CODE == 100000

----------------------------------------------------------------------------
(* Generic helpers *)

Range(s) == {s[i] : i \in 1..Len(s)}

Last(s) == s[Len(s)]

RECURSIVE Concat(_)
Concat(ss) == IF ss = <<>> THEN <<>> ELSE Head(ss) \o Concat(Tail(ss))

IsPrefix(p, s) == Len(p) <= Len(s) /\ SubSeq(s, 1, Len(p)) = p

----------------------------------------------------------------------------
(* Paths *)

PathA == <<"/", "p", "a.ts">>
PathB == <<"/", "p", "b.d.ts">>
Files == {PathA, PathB}

\* the same file spelled with a "." segment
Dotted(p) == <<p[1], ".">> \o Tail(p)
OtherFile(p) == IF p = PathA THEN PathB ELSE PathA

\* path.normalize: "." segments vanish, ".." cancels the segment before it
RECURSIVE normalizeInto(_, _)
normalizeInto(done, rest) ==
    IF rest = <<>> THEN done
    ELSE IF Head(rest) = "." THEN normalizeInto(done, Tail(rest))
    ELSE IF Head(rest) = ".." /\ done # <<>> /\ Last(done) # ".."
         THEN normalizeInto(SubSeq(done, 1, Len(done) - 1), Tail(rest))
    ELSE normalizeInto(Append(done, Head(rest)), Tail(rest))

normalize(p) == normalizeInto(<<>>, p)

\* fileName.endsWith('.d.ts')
endsWithDts(p) == Last(p) \in {"b.d.ts"}

\* path.isAbsolute / path.join for the configFile option
ProjectRoot == <<"/", "p">>
isAbsolute(p) == p # <<>> /\ Head(p) = "/"
join(a, b) == normalize(a \o b)

----------------------------------------------------------------------------
(* tslint data: replacements, fixes, failures *)

\* a tslint Replacement; its `end` getter is start + length
Repl(start, length) == [start |-> start, length |-> length, text |-> "x"]
ReplEnd(r) == r.start + r.length

\* The value of problem.getFix(): absent ("none"), the tslint 4 object with a
\* `replacements` array ("v4"), the tslint 5 array ("array"), or the tslint 5
\* bare Replacement ("single", one element).
Fix(shape, repls) == [shape |-> shape, repls |-> repls]
NoFix == Fix("none", <<>>)

\* a RuleFailure; ruleName is optional, severity "none" stands for a failure
\* without getRuleSeverity (tslint < 5)
Failure(rule, start, end, severity, fileName, fix) ==
    [start |-> start, end |-> end, severity |-> severity, fileName |-> fileName,
     fix |-> fix, ruleName |-> rule, failure |-> "msg"]

\* failures a lint pass on fileName may report: two fixable failures of one
\* rule, a fixable failure of another rule on the span of the first, a
\* failure without a fix, one of that other rule with an empty fix, one with
\* an empty tslint 4 fix, one of another file, and a third failure of the
\* first rule whose fix reaches into the fix of the first
Semi1(fileName) ==
    Failure(<<"semicolon">>, 0, 2, "error", fileName, Fix("array", <<Repl(0, 2)>>))
Semi2(fileName) ==
    Failure(<<"semicolon">>, 4, 6, "warning", Dotted(fileName),
            Fix("v4", <<Repl(4, 1), Repl(5, 1)>>))
Quote1(fileName) ==
    Failure(<<"quotemark">>, 0, 2, "none", fileName, Fix("single", <<Repl(1, 3)>>))
Unnamed(fileName) == Failure(<<>>, 7, 8, "error", fileName, NoFix)
EmptyFix(fileName) ==
    Failure(<<"quotemark">>, 4, 6, "warning", fileName, Fix("array", <<>>))
EmptyV4(fileName) == Failure(<<"semicolon">>, 7, 8, "error", fileName, Fix("v4", <<>>))
Semi3(fileName) ==
    Failure(<<"semicolon">>, 1, 3, "error", fileName, Fix("array", <<Repl(1, 2)>>))
Foreign(fileName) ==
    Failure(<<"semicolon">>, 0, 2, "error", OtherFile(fileName),
            Fix("array", <<Repl(0, 2)>>))

\* the failure lists linter.getResult() may hold after linting fileName
FailureLists(fileName) ==
    IF fileName = PathA
    THEN { <<>>,
           <<Semi1(fileName)>>,
           <<Semi1(fileName), Semi2(fileName)>>,
           <<Semi2(fileName), Semi1(fileName)>>,
           <<Semi1(fileName), Quote1(fileName)>>,
           <<Quote1(fileName), Semi2(fileName)>>,
           <<Unnamed(fileName)>>,
           <<Unnamed(fileName), Semi2(fileName)>>,
           <<EmptyFix(fileName), Semi1(fileName)>>,
           <<Quote1(fileName), EmptyFix(fileName)>>,
           <<Semi1(fileName), EmptyV4(fileName)>>,
           <<Semi1(fileName), Semi3(fileName)>>,
           <<Foreign(fileName)>>,
           <<Foreign(fileName), Semi1(fileName)>> }
    ELSE { <<>>, <<Semi1(fileName)>>, <<Foreign(fileName)>> }

\* what linter.lint / linter.getResult may do
LintOutcomes(fileName) ==
    {[kind |-> "throws", failures |-> <<>>]} \cup
    {[kind |-> "ok", failures |-> fs] : fs \in FailureLists(fileName)}

\* the host's own diagnostics and code fixes
HostDiagnostic(code) ==
    [start |-> 0, length |-> 1, code |-> code, file |-> <<>>,
     messageText |-> <<"type error">>, category |-> "Error", source |-> "ts"]
HostDiagnostics == {<<>>, <<HostDiagnostic(2322), HostDiagnostic(2304)>>}
HostFix == [description |-> <<"Import", "x">>, changes |-> <<>>]
HostFixes == {<<>>, <<HostFix>>}

\* the spans the host asks code fixes for
Spans == {<<0, 2>>, <<4, 6>>, <<7, 8>>}

\* the source file's line starts, and the line a position is on
LineStarts == <<0, 4>>
LineOf(pos) == IF pos >= LineStarts[2] THEN 1 ELSE 0

----------------------------------------------------------------------------
(* The plugin's configuration block (info.config) *)

DefaultBlock ==
    [alwaysShowRuleFailuresAsWarnings |-> FALSE,
     ignoreDefinitionFiles |-> FALSE,
     configFile |-> <<>>,
     disableNoUnusedVariableRule |-> "undefined",
     supressWhileTypeErrorsPresent |-> FALSE,
     suppressWhileTypeErrorsPresent |-> FALSE]

ExplicitConfigFile == <<"cfg", "tslint.json">>

ConfigBlocks ==
    { DefaultBlock,
      [DefaultBlock EXCEPT !.alwaysShowRuleFailuresAsWarnings = TRUE],
      [DefaultBlock EXCEPT !.ignoreDefinitionFiles = TRUE],
      [DefaultBlock EXCEPT !.configFile = <<ExplicitConfigFile>>],
      [DefaultBlock EXCEPT !.disableNoUnusedVariableRule = "false"],
      [DefaultBlock EXCEPT !.supressWhileTypeErrorsPresent = TRUE],
      [DefaultBlock EXCEPT !.suppressWhileTypeErrorsPresent = TRUE] }

fixRelativeConfigFilePath(cfg, projectRoot) ==
    IF cfg.configFile = <<>> THEN cfg
    ELSE IF isAbsolute(cfg.configFile[1]) THEN cfg
    ELSE [cfg EXCEPT !.configFile = <<join(projectRoot, cfg.configFile[1])>>]

----------------------------------------------------------------------------
(* The tslint configuration files of the workspace *)

\* a glob of linterOptions.exclude against a file name (minimatch)
Match(pattern, fileName) ==
    CASE pattern = "**/*.d.ts" -> endsWithDts(fileName)
      [] pattern = "**/a.js" -> Last(fileName) = "a.js"
      [] OTHER -> FALSE

\* tslint.Configuration.findConfiguration(configFileName, filePath).results:
\* the explicit configuration file when one is named, else the tslint.json
\* found upwards from the file.  rulesAreMap: tslint 5 keeps rules in a Map.
Configuration(rules, jsRules, exclude) ==
    [rules |-> rules, jsRules |-> jsRules, exclude |-> exclude,
     rulesAreMap |-> TRUE]

findConfigurationResults(configFileName, filePath) ==
    IF configFileName # <<>>
    THEN Configuration({"semicolon", "no-unused-variable"}, {"no-unused-variable"},
                       <<"**/a.js", "**/*.d.ts">>)
    ELSE Configuration({"semicolon", "quotemark", "no-unused-variable"}, {}, <<>>)

\* tslint.Configuration.findConfigurationPath(configFileName, filePath)
findConfigurationPath(configFileName, filePath) ==
    IF configFileName # <<>> THEN configFileName ELSE <<<<"/", "p", "tslint.json">>>>

\* how a configuration load may end: a result, an exception (tslint 3 and
\* >= 4.0.2), or a result carrying `error` (tslint 4.0.0 - 4.0.1)
LoadOutcomes == {"ok", "throws", "error"}

----------------------------------------------------------------------------
(* JavaScript Maps: sequences of entries in insertion order *)

MapHas(m, k) == \E i \in 1..Len(m) : m[i].key = k

\* Map.prototype.get as an optional value
MapGet(m, k) ==
    IF MapHas(m, k) THEN <<(CHOOSE e \in Range(m) : e.key = k).value>> ELSE <<>>

\* Map.prototype.set: an existing key keeps its place, a new one goes last
MapSet(m, k, v) ==
    IF MapHas(m, k)
    THEN LET i == CHOOSE j \in 1..Len(m) : m[j].key = k
         IN  SubSeq(m, 1, i - 1) \o <<[key |-> k, value |-> v]>> \o SubSeq(m, i + 1, Len(m))
    ELSE Append(m, [key |-> k, value |-> v])

\* [...m.values()]
MapValues(m) == [i \in 1..Len(m) |-> m[i].value]

----------------------------------------------------------------------------
(* Diagnostics and the Problem Registry *)

\* key to identify a rule failure: the string "[start,end]"
computeKey(start, end) == <<start, end>>

\* a slip: the failure's severity looked at before the override
makeDiagnosticSeverityFirst(cfg, problem, file) ==
    LET message == IF problem.ruleName # <<>>
                   THEN <<problem.failure, problem.ruleName[1]>>
                   ELSE <<problem.failure>>
        category == IF problem.severity = "error" THEN "Error"
                    ELSE "Warning"
    IN  [start |-> problem.start,
         length |-> problem.end - problem.start,
         code |-> TSLINT_ERROR_CODE,
         file |-> file,
         messageText |-> message,
         category |-> category,
         source |-> "tslint"]

makeDiagnostic(cfg, problem, file) ==
    LET message == IF problem.ruleName # <<>>
                   THEN <<problem.failure, problem.ruleName[1]>>
                   ELSE <<problem.failure>>
        category == IF cfg.alwaysShowRuleFailuresAsWarnings = TRUE THEN "Warning"
                    ELSE IF problem.severity = "error" THEN "Error"
                    ELSE "Warning"
    IN  [start |-> problem.start,
         length |-> problem.end - problem.start,
         code |-> TSLINT_ERROR_CODE,
         file |-> file,
         messageText |-> message,
         category |-> category,
         source |-> "tslint"]

\* a slip: the failures of other files are let through
filterProblemsOfAnyDocument(documentPath, failures) == failures

\* a slip: the failure's file name compared as reported, not normalized
filterProblemsUnnormalized(documentPath, failures) ==
    SelectSeq(failures, LAMBDA each : each.fileName = documentPath)

filterProblemsForDocument(documentPath, failures) ==
    LET normalizedPath == normalize(documentPath)
    IN  SelectSeq(failures, LAMBDA each : normalize(each.fileName) = normalizedPath)

replacementsAreEmpty(fix) ==
    IF fix.shape = "v4" THEN Len(fix.repls) = 0
    ELSE IF fix.shape = "array" THEN Len(fix.repls) = 0
    ELSE FALSE

\* a slip: the Map of the file is created before the fix is looked at
recordCodeActionMapFirst(actions, problem, fileName) ==
    LET fix == IF problem.fix.shape # "none" /\ ~replacementsAreEmpty(problem.fix)
               THEN <<problem.fix>> ELSE <<>>
        got == MapGet(actions, fileName)
        documentAutoFixes == IF got = <<>> THEN <<>> ELSE got[1]
    IN  IF fix = <<>> THEN MapSet(actions, fileName, documentAutoFixes)
        ELSE MapSet(actions, fileName,
                    MapSet(documentAutoFixes,
                           computeKey(problem.start, problem.end), problem))

\* a slip: a span that is already recorded keeps its failure
recordCodeActionKeepFirst(actions, problem, fileName) ==
    LET fix == IF problem.fix.shape # "none" /\ ~replacementsAreEmpty(problem.fix)
               THEN <<problem.fix>> ELSE <<>>
        got == MapGet(actions, fileName)
        documentAutoFixes == IF got = <<>> THEN <<>> ELSE got[1]
        key == computeKey(problem.start, problem.end)
    IN  IF fix = <<>> \/ MapHas(documentAutoFixes, key) THEN actions
        ELSE MapSet(actions, fileName, MapSet(documentAutoFixes, key, problem))

\* a slip: a fix is recorded without looking at its replacements
recordCodeActionAnyFix(actions, problem, fileName) ==
    IF problem.fix.shape = "none" THEN actions
    ELSE LET got == MapGet(actions, fileName)
             documentAutoFixes == IF got = <<>> THEN <<>> ELSE got[1]
         IN  MapSet(actions, fileName,
                    MapSet(documentAutoFixes,
                           computeKey(problem.start, problem.end), problem))

\* codeFixActions after recordCodeAction(problem, file), file.fileName = fileName
recordCodeAction(actions, problem, fileName) ==
    LET fix == IF problem.fix.shape # "none" /\ ~replacementsAreEmpty(problem.fix)
               THEN <<problem.fix>> ELSE <<>>
    IN  IF fix = <<>> THEN actions
        ELSE LET got == MapGet(actions, fileName)
                 documentAutoFixes == IF got = <<>> THEN <<>> ELSE got[1]
                 updated == MapSet(documentAutoFixes,
                                   computeKey(problem.start, problem.end), problem)
             IN  MapSet(actions, fileName, updated)

\* tslintProblems.forEach(problem => { ...; recordCodeAction(problem, file) })
RECURSIVE recordAll(_, _, _)
recordAll(actions, problems, fileName) ==
    IF problems = <<>> THEN actions
    ELSE recordAll(recordCodeAction(actions, Head(problems), fileName),
                   Tail(problems), fileName)

\* a slip: codeFixActions.clear() in place of delete(fileName)
deleteEveryFile(actions, fileName) == <<>>

\* a slip: the entry of the file is not deleted
deleteNothing(actions, fileName) == actions

\* if (codeFixActions.has(fileName)) codeFixActions.delete(fileName)
deleteFile(actions, fileName) ==
    SelectSeq(actions, LAMBDA e : e.key # fileName)

----------------------------------------------------------------------------
(* The Configuration Resolver *)

NoQueries == [latest |-> <<>>, loaded |-> <<>>]

EmptyCache ==
    [filePath |-> <<>>, configuration |-> <<>>, isDefaultConfig |-> FALSE,
     configFilePath |-> <<>>]

getConfigurationFailureMessage(err) ==
    <<"tslint: Cannot read tslint configuration", err>>

\* Map.prototype.delete('no-unused-variable') on a rules container
deleteRule(rules, areMap) == IF areMap THEN rules \ {"no-unused-variable"} ELSE rules

\* a slip: configurationResult.error is not looked at
getConfigurationIgnoringError(cache, cfg, filePath, configFileName, load) ==
    IF cache.configuration # <<>> /\ cache.filePath = <<filePath>>
    THEN [configuration |-> cache.configuration, err |-> "", cache |-> cache,
          threw |-> FALSE]
    ELSE IF load = "throws"
    THEN [configuration |-> <<>>, err |-> "load failed", cache |-> cache,
          threw |-> TRUE]
    ELSE LET results == findConfigurationResults(configFileName, filePath)
             newCache == [filePath |-> <<filePath>>,
                          configuration |-> <<results>>,
                          isDefaultConfig |-> FALSE,
                          configFilePath |-> findConfigurationPath(configFileName, filePath)]
         IN  [configuration |-> <<results>>, err |-> "", cache |-> newCache,
              threw |-> FALSE]

\* a slip: the held entry returned whatever the path asked for
getConfigurationAnyPath(cache, cfg, filePath, configFileName, load) ==
    IF cache.configuration # <<>>
    THEN [configuration |-> cache.configuration, err |-> "", cache |-> cache,
          threw |-> FALSE]
    ELSE getConfigurationIgnoringError(cache, cfg, filePath, configFileName, load)

\* getConfiguration(filePath, configFileName) under cache `cache` for the
\* session with block cfg, when a load would end as `load`:
\* whether it threw, the configuration returned, and the cache afterwards
getConfiguration(cache, cfg, filePath, configFileName, load) ==
    IF cache.configuration # <<>> /\ cache.filePath = <<filePath>>
    THEN [configuration |-> cache.configuration, err |-> "", cache |-> cache,
          threw |-> FALSE]
    ELSE IF load = "throws"
    THEN [configuration |-> <<>>, err |-> "load failed", cache |-> cache,
          threw |-> TRUE]
    ELSE IF load = "error"
    THEN [configuration |-> <<>>, err |-> "load error", cache |-> cache,
          threw |-> TRUE]
    ELSE LET isDefaultConfig == findConfigurationPath(configFileName, filePath) = <<>>
             results == findConfigurationResults(configFileName, filePath)
             configuration ==
                 IF cfg.disableNoUnusedVariableRule \in {"true", "undefined"}
                 THEN [results EXCEPT
                          !.rules = deleteRule(results.rules, results.rulesAreMap),
                          !.jsRules = deleteRule(results.jsRules, results.rulesAreMap)]
                 ELSE results
             newCache == [filePath |-> <<filePath>>,
                          configuration |-> <<configuration>>,
                          isDefaultConfig |-> isDefaultConfig,
                          configFilePath |-> findConfigurationPath(configFileName, filePath)]
         IN  [configuration |-> <<configuration>>, err |-> "", cache |-> newCache,
              threw |-> FALSE]

\* a slip: `every` in place of `some`
isExcludedByEvery(configuration, fileName) ==
    /\ Len(configuration.exclude) > 0
    /\ \A i \in 1..Len(configuration.exclude) : Match(configuration.exclude[i], fileName)

\* configuration.linterOptions.exclude.some(pattern => minimatch(pattern, fileName))
isExcluded(configuration, fileName) ==
    \E i \in 1..Len(configuration.exclude) : Match(configuration.exclude[i], fileName)

----------------------------------------------------------------------------
(* The Fix Synthesizer *)

convertReplacementToTextChange(repl) ==
    [newText |-> repl.text, span |-> [start |-> repl.start, length |-> repl.length]]

getReplacements(fix) ==
    IF fix.shape = "v4" THEN fix.repls
    ELSE IF fix.shape # "array" THEN <<fix.repls[1]>>
    ELSE fix.repls

problemToFileTextChange(problem, fileName) ==
    LET replacements == getReplacements(problem.fix)
    IN  [fileName |-> fileName,
         textChanges |-> [i \in 1..Len(replacements) |->
                             convertReplacementToTextChange(replacements[i])]]

\* `${problem.getRuleName()}` inside a description
ruleText(ruleName) == IF ruleName = <<>> THEN "null" ELSE ruleName[1]

addRuleFailureFix(fixes, problem, fileName) ==
    Append(fixes, [description |-> <<"Fix", ruleText(problem.ruleName)>>,
                   changes |-> <<problemToFileTextChange(problem, fileName)>>])

\* a slip: the instances are collected last to first
addRuleFailureFixAllReversed(fixes, ruleName, problems, fileName) ==
    LET same == SelectSeq(MapValues(problems), LAMBDA problem : problem.ruleName = ruleName)
        changes == [i \in 1..Len(same) |->
                       problemToFileTextChange(same[Len(same) + 1 - i], fileName)]
    IN  IF Len(changes) < 2 THEN fixes
        ELSE Append(fixes, [description |-> <<"Fix all", ruleText(ruleName)>>,
                            changes |-> changes])

\* a slip: the action is pushed whatever the number of instances
addRuleFailureFixAllAlways(fixes, ruleName, problems, fileName) ==
    LET same == SelectSeq(MapValues(problems), LAMBDA problem : problem.ruleName = ruleName)
        changes == [i \in 1..Len(same) |-> problemToFileTextChange(same[i], fileName)]
    IN  Append(fixes, [description |-> <<"Fix all", ruleText(ruleName)>>,
                       changes |-> changes])

\* Generate a code action that fixes all instances of ruleName.
addRuleFailureFixAll(fixes, ruleName, problems, fileName) ==
    LET same == SelectSeq(MapValues(problems), LAMBDA problem : problem.ruleName = ruleName)
        changes == [i \in 1..Len(same) |-> problemToFileTextChange(same[i], fileName)]
    IN  IF Len(changes) < 2 THEN fixes
        ELSE Append(fixes, [description |-> <<"Fix all", ruleText(ruleName)>>,
                            changes |-> changes])

\* file.getLineStarts()[problem.getStartPosition().getLineAndCharacter().line]
addDisableRuleFix(fixes, problem, fileName) ==
    Append(fixes,
           [description |-> <<"Disable rule", ruleText(problem.ruleName)>>,
            changes |-> <<[fileName |-> fileName,
                           textChanges |-> <<[newText |-> "// tslint:disable-next-line",
                                              span |-> [start |-> LineStarts[LineOf(problem.start) + 1],
                                                        length |-> 0]]>>]>>])

\* the Open Configuration code action is disabled
addOpenConfigurationFix(fixes) == fixes

getReplacement(failure, at) == getReplacements(failure.fix)[at]

\* Array.prototype.sort with the comparator a.start - b.start on the first
\* replacements; the sort is stable
RECURSIVE insertSorted(_, _)
insertSorted(sorted, x) ==
    IF sorted = <<>> THEN <<x>>
    ELSE IF getReplacement(Last(sorted), 1).start - getReplacement(x, 1).start <= 0
         THEN Append(sorted, x)
    ELSE Append(insertSorted(SubSeq(sorted, 1, Len(sorted) - 1), x), Last(sorted))

\* a slip: of two failures starting together the later one is put first
RECURSIVE insertBeforeTies(_, _)
insertBeforeTies(sorted, x) ==
    IF sorted = <<>> THEN <<x>>
    ELSE IF getReplacement(Last(sorted), 1).start - getReplacement(x, 1).start < 0
         THEN Append(sorted, x)
    ELSE Append(insertBeforeTies(SubSeq(sorted, 1, Len(sorted) - 1), x), Last(sorted))

RECURSIVE sortFromTiesReversed(_, _)
sortFromTiesReversed(sorted, rest) ==
    IF rest = <<>> THEN sorted
    ELSE sortFromTiesReversed(insertBeforeTies(sorted, Head(rest)), Tail(rest))

sortFailuresTiesReversed(failures) == sortFromTiesReversed(<<>>, failures)

RECURSIVE sortFrom(_, _)
sortFrom(sorted, rest) ==
    IF rest = <<>> THEN sorted ELSE sortFrom(insertSorted(sorted, Head(rest)), Tail(rest))

\* a slip: the failures are walked in the order of the Map
sortFailuresUnsorted(failures) == failures

sortFailures(failures) == sortFrom(<<>>, failures)

\* a slip: replacements that touch are not taken to overlap
overlapsProperly(a, b) == ReplEnd(a) > b.start

overlaps(a, b) == ReplEnd(a) >= b.start

\* the loop of getNonOverlappingReplacements from index i on: the replacements
\* accumulated and the failures whose replacements were pushed
RECURSIVE walkFailures(_, _, _, _)
walkFailures(sorted, i, acc, kept) ==
    IF i > Len(sorted) THEN [nonOverlapping |-> acc, kept |-> kept]
    ELSE LET replacements == getReplacements(sorted[i].fix)
         IN  IF i = 1 \/ ~overlaps(Last(acc), replacements[1])
             THEN walkFailures(sorted, i + 1, acc \o replacements, Append(kept, sorted[i]))
             ELSE walkFailures(sorted, i + 1, acc, kept)

getNonOverlappingReplacements(fixes) ==
    walkFailures(sortFailures(MapValues(fixes)), 1, <<>>, <<>>).nonOverlapping

\* a slip: documentFixes is rebuilt in the order of the sorted failures
registryAfterSortOfTheMap(actions, fileName) ==
    LET sorted == sortFailures(MapValues(MapGet(actions, fileName)[1]))
    IN  MapSet(actions, fileName,
               [i \in 1..Len(sorted) |->
                   [key |-> computeKey(sorted[i].start, sorted[i].end),
                    value |-> sorted[i]]])

\* the registry after getNonOverlappingReplacements(codeFixActions.get(fileName)):
\* sortFailures sorts the array [...documentFixes.values()], a copy, in place;
\* the Map keeps its entries and their order
registryAfterSort(actions, fileName) == actions

\* a slip: unshift in place of push
addAllAutoFixableFirst(fixes, fixesOfDocument, fileName) ==
    LET allReplacements == getNonOverlappingReplacements(fixesOfDocument)
    IN  <<[description |-> <<"Fix all auto-fixable tslint failures", "">>,
           changes |-> <<[fileName |-> fileName,
                          textChanges |-> [i \in 1..Len(allReplacements) |->
                              convertReplacementToTextChange(allReplacements[i])]]>>]>> \o fixes

addAllAutoFixable(fixes, fixesOfDocument, fileName) ==
    LET allReplacements == getNonOverlappingReplacements(fixesOfDocument)
    IN  Append(fixes,
               [description |-> <<"Fix all auto-fixable tslint failures", "">>,
                changes |-> <<[fileName |-> fileName,
                               textChanges |-> [i \in 1..Len(allReplacements) |->
                                   convertReplacementToTextChange(allReplacements[i])]]>>])

----------------------------------------------------------------------------
(* The two intercepted operations *)

NoLint == [kind |-> "none", failures |-> <<>>]

NoCall ==
    [fileName |-> <<>>, configuration |-> <<>>, load |-> "none", threw |-> FALSE,
     span |-> <<>>, op |-> "none",
     prior |-> <<>>, arguments |-> <<>>,
     delegated |-> <<>>, warnBefore |-> <<>>, warnDuring |-> <<>>,
     lint |-> NoLint, sourceFile |-> TRUE, ret |-> <<>>, exit |-> "none",
     log |-> <<>>, lintRan |-> FALSE, loadTried |-> FALSE,
     found |-> <<>>, builtFrom |-> {}, hadEntry |-> FALSE,
     repeated |-> FALSE, sameAppended |-> FALSE]

\* a slip: console.warn put back only after the try block, no finally
protectedLintNoFinally(warn, lint) ==
    LET captureWarnings == "captureWarnings"
    IN  [consoleWarn |-> IF lint.kind = "throws" THEN captureWarnings ELSE warn,
         threw |-> lint.kind = "throws",
         during |-> captureWarnings]

\* let warn = console.warn; console.warn = captureWarnings;
\* try { linter.lint(...) } catch (err) { ... return prior } finally { console.warn = warn }
\* console.warn while the linter runs, whether it threw, console.warn afterwards
protectedLint(warn, lint) ==
    LET captureWarnings == "captureWarnings"
    IN  [consoleWarn |-> warn,
         threw |-> lint.kind = "throws",
         during |-> captureWarnings]

\* proxy.getSemanticDiagnostics(fileName) in the session with block cfg, when
\* the host answers `prior`, a configuration load would end as `load` and
\* the lint pass as `lint`
semanticDiagnostics(actions, cache, cfg, warn, fileName, prior, load, lint) ==
    LET base == [consoleWarn |-> warn, actions |-> actions, configuration |-> <<>>,
                 cache |-> cache, warnDuring |-> <<>>, ret |-> prior,
                 exit |-> "suppressed", log |-> <<>>, lintRan |-> FALSE,
                 loadTried |-> FALSE, found |-> <<>>]
        computing == <<"Computing tslint semantic diagnostics...">>
        cleared == deleteFile(actions, fileName)
        entered == [base EXCEPT !.actions = cleared, !.log = <<computing>>]
        resolved == getConfiguration(cache, cfg, fileName, cfg.configFile, load)
        tried == ~(cache.configuration # <<>> /\ cache.filePath = <<fileName>>)
        loaded == [entered EXCEPT !.cache = resolved.cache, !.loadTried = tried,
                                  !.configuration = resolved.configuration]
        ran == protectedLint(warn, lint)
        linted == [loaded EXCEPT !.lintRan = TRUE, !.consoleWarn = ran.consoleWarn,
                                 !.warnDuring = <<ran.during>>]
        tslintProblems == filterProblemsForDocument(fileName, lint.failures)
    IN  IF cfg.supressWhileTypeErrorsPresent /\ Len(prior) > 0
        THEN base
        ELSE IF cfg.ignoreDefinitionFiles = TRUE /\ endsWithDts(fileName)
        THEN [entered EXCEPT !.exit = "definitionFile"]
        ELSE IF resolved.threw
        THEN [entered EXCEPT !.exit = "configFailed", !.loadTried = tried,
                 !.log = <<computing, getConfigurationFailureMessage(resolved.err)>>]
        ELSE IF isExcluded(resolved.configuration[1], fileName)
        THEN [loaded EXCEPT !.exit = "excluded"]
        ELSE IF ran.threw
        THEN [linted EXCEPT !.exit = "lintFailed",
                            !.log = <<computing, <<"tslint error ", "lint failed">>>>]
        ELSE IF Len(lint.failures) > 0 /\ Len(tslintProblems) > 0
        THEN [linted EXCEPT
                 !.exit = "augmented",
                 !.found = tslintProblems,
                 !.ret = prior \o [i \in 1..Len(tslintProblems) |->
                                      makeDiagnostic(cfg, tslintProblems[i], fileName)],
                 !.actions = recordAll(cleared, tslintProblems, fileName)]
        ELSE [linted EXCEPT !.exit = "nothing"]

\* An answer the call never asks for is not enumerated: a call that loads
\* nothing is given "ok", a call that does not lint the empty result (unless
\* it is the exclusion that keeps the linter away), a call that looks up no
\* source file a found one.
getSemanticDiagnostics(fileName, prior, load, lint) ==
    \E out \in {semanticDiagnostics(codeFixActions, configCache, config, consoleWarn,
                                    fileName, prior, load, lint)} :
      \E again \in {/\ last.op = "getSemanticDiagnostics"
                    /\ last.fileName = <<fileName>>
                    /\ last.prior = prior
                    /\ last.load = load
                    /\ last.lint = lint} :
        /\ out.loadTried \/ load = "ok"
        /\ out.lintRan \/ out.exit = "excluded" \/ lint = [kind |-> "ok", failures |-> <<>>]
        /\ codeFixActions' = out.actions
        /\ configCache' = out.cache
        /\ consoleWarn' = out.consoleWarn
        /\ last' = [NoCall EXCEPT
                       !.op = "getSemanticDiagnostics", !.fileName = <<fileName>>,
                       !.prior = prior, !.load = load, !.lint = lint,
                       !.ret = out.ret, !.exit = out.exit, !.log = out.log,
                       !.lintRan = out.lintRan, !.loadTried = out.loadTried,
                       !.configuration = out.configuration, !.found = out.found,
                       !.hadEntry = MapHas(codeFixActions, fileName),
                       !.warnBefore = <<consoleWarn>>, !.warnDuring = out.warnDuring,
                       !.repeated = again,
                       !.sameAppended = (again /\ out.ret = last.ret)]
        /\ lastFound' = [lastFound EXCEPT ![fileName] = out.found]
        /\ queries' = IF out.exit \in {"suppressed", "definitionFile"} THEN queries
                      ELSE [latest |-> <<fileName>>,
                            loaded |-> IF out.exit = "configFailed" THEN queries.loaded
                                       ELSE <<fileName>>]
        /\ UNCHANGED <<config, overlapVars>>

\* a slip: addAllAutoFixable moved inside `if (problem)`
codeFixesAtPositionLocatedOnly(actions, cfg, fileName, start, end, prior, sourceFile) ==
    LET base == [actions |-> actions, threw |-> FALSE, ret |-> prior, exit |-> "suppressed",
                 log |-> <<>>, builtFrom |-> {}]
        logged == <<<<"tslint-language-service getCodeFixes ">>>>
        fixesOfDocument == MapGet(actions, fileName)
        problem == MapGet(fixesOfDocument[1], computeKey(start, end))
        all == addAllAutoFixable(
                   addRuleFailureFixAll(
                       addRuleFailureFix(prior, problem[1], fileName),
                       problem[1].ruleName, fixesOfDocument[1], fileName),
                   fixesOfDocument[1], fileName)
        used == Range(MapValues(fixesOfDocument[1]))
    IN  IF cfg.supressWhileTypeErrorsPresent /\ Len(prior) > 0
        THEN base
        ELSE IF fixesOfDocument = <<>>
        THEN [base EXCEPT !.log = logged, !.exit = "noFixes"]
        ELSE IF problem = <<>>
        THEN [base EXCEPT !.log = logged, !.exit = "fixAll", !.builtFrom = used]
        ELSE IF ~sourceFile
        THEN [base EXCEPT !.log = logged, !.exit = "threw", !.threw = TRUE,
                          !.ret = <<>>]
        ELSE [base EXCEPT !.log = logged, !.exit = "located", !.builtFrom = used,
                 !.ret = addDisableRuleFix(addOpenConfigurationFix(all), problem[1], fileName)]

\* proxy.getCodeFixesAtPosition(fileName, start, end, ...) when the host
\* answers `prior` and getSourceFile(fileName) is, or is not, found
codeFixesAtPosition(actions, cfg, fileName, start, end, prior, sourceFile) ==
    LET base == [actions |-> actions, threw |-> FALSE, ret |-> prior, exit |-> "suppressed",
                 log |-> <<>>, builtFrom |-> {}]
        logged == <<<<"tslint-language-service getCodeFixes ">>>>
        fixesOfDocument == MapGet(actions, fileName)
        problem == MapGet(fixesOfDocument[1], computeKey(start, end))
        single == IF problem # <<>>
                  THEN addRuleFailureFixAll(
                           addRuleFailureFix(prior, problem[1], fileName),
                           problem[1].ruleName, fixesOfDocument[1], fileName)
                  ELSE prior
        all == addAllAutoFixable(single, fixesOfDocument[1], fileName)
        used == Range(MapValues(fixesOfDocument[1]))
    IN  IF cfg.supressWhileTypeErrorsPresent /\ Len(prior) > 0
        THEN base
        ELSE IF fixesOfDocument = <<>>
        THEN [base EXCEPT !.log = logged, !.exit = "noFixes"]
        ELSE IF problem = <<>>
        THEN [base EXCEPT !.log = logged, !.exit = "fixAll", !.ret = all,
                          !.builtFrom = used,
                          !.actions = registryAfterSort(actions, fileName)]
        ELSE IF ~sourceFile
        THEN \* file.getLineStarts() on undefined: the TypeError leaves the call
             [base EXCEPT !.log = logged, !.exit = "threw", !.threw = TRUE,
                          !.ret = <<>>,
                          !.actions = registryAfterSort(actions, fileName)]
        ELSE [base EXCEPT !.log = logged, !.exit = "located", !.builtFrom = used,
                 !.actions = registryAfterSort(actions, fileName),
                 !.ret = addDisableRuleFix(addOpenConfigurationFix(all), problem[1], fileName)]

getCodeFixesAtPosition(fileName, start, end, prior, sourceFile) ==
    \E out \in {codeFixesAtPosition(codeFixActions, config, fileName, start, end,
                                    prior, sourceFile)} :
        /\ out.exit \in {"located", "threw"} \/ sourceFile
        /\ last' = [NoCall EXCEPT
                       !.op = "getCodeFixesAtPosition", !.fileName = <<fileName>>,
                       !.span = <<start, end>>, !.prior = prior,
                       !.sourceFile = sourceFile,
                       !.ret = out.ret, !.threw = out.threw, !.exit = out.exit,
                       !.log = out.log, !.builtFrom = out.builtFrom,
                       !.hadEntry = MapHas(codeFixActions, fileName)]
        /\ codeFixActions' = out.actions
        /\ UNCHANGED <<configCache, config, consoleWarn, lastFound, queries,
                       overlapVars>>

\* the operations of the language service the plugin does not override, with
\* the arguments the host passes them
OtherOperations == {"getSyntacticDiagnostics", "getQuickInfoAtPosition"}
ArgumentsOf(k) == IF k = "getSyntacticDiagnostics" THEN <<PathA>> ELSE <<PathB, 4>>

\* a slip: oldLS[k]() called without the arguments
proxyOperationBare(k, arguments, answer) ==
    [delegated |-> <<[op |-> k, arguments |-> <<>>, this |-> "oldLS"]>>, ret |-> answer]

\* proxy[k] = function () { return oldLS[k].apply(oldLS, arguments); }
\* the calls made on oldLS and the value returned, when oldLS[k] answers `answer`
proxyOperation(k, arguments, answer) ==
    [delegated |-> <<[op |-> k, arguments |-> arguments, this |-> "oldLS"]>>,
     ret |-> answer]

delegate(k, arguments, answer) ==
    \E out \in {proxyOperation(k, arguments, answer)} :
        /\ last' = [NoCall EXCEPT !.op = k, !.arguments = arguments, !.prior = answer,
                                  !.delegated = out.delegated, !.ret = out.ret]
        /\ UNCHANGED <<codeFixActions, configCache, config, consoleWarn, lastFound,
                       queries, overlapVars>>

\* create(info): a further session, through which the host's next calls go
create(block) ==
    /\ config' = fixRelativeConfigFilePath(block, ProjectRoot)
    /\ config' # config
    /\ last' = [NoCall EXCEPT !.op = "create",
                              !.log = <<<<"tslint-language-service loaded">>>>]
    /\ UNCHANGED <<codeFixActions, configCache, consoleWarn, lastFound, queries,
                   overlapVars>>

----------------------------------------------------------------------------
(* The plugin as a state machine *)

OverlapIdle ==
    /\ documentFixes = <<>>
    /\ sortedFailures = <<>>
    /\ keptFailures = <<>>
    /\ nonOverlapping = <<>>
    /\ pc = "idle"

Init ==
    /\ codeFixActions = <<>>
    /\ configCache = EmptyCache
    /\ config \in {fixRelativeConfigFilePath(b, ProjectRoot) : b \in ConfigBlocks}
    /\ consoleWarn = "console.warn"
    /\ last = NoCall
    /\ lastFound = [f \in Files |-> <<>>]
    /\ queries = NoQueries
    /\ OverlapIdle

Diagnose ==
    \E fileName \in Files, prior \in HostDiagnostics, load \in LoadOutcomes :
        \E lint \in LintOutcomes(fileName) :
            getSemanticDiagnostics(fileName, prior, load, lint)

CodeFixes ==
    \E fileName \in Files, span \in Spans, prior \in HostFixes, sourceFile \in BOOLEAN :
        getCodeFixesAtPosition(fileName, span[1], span[2], prior, sourceFile)

Delegate ==
    \E k \in OtherOperations, answer \in HostDiagnostics :
        delegate(k, ArgumentsOf(k), answer)

Create == \E block \in ConfigBlocks : create(block)

Next == Diagnose \/ CodeFixes \/ Delegate

\* the host's calls through one session
Spec == Init /\ [][Next]_vars

\* the host's calls through the sessions of several projects
NextSessions == Diagnose \/ CodeFixes \/ Delegate \/ Create

SpecSessions == Init /\ [][NextSessions]_vars

\* the Configuration Resolver across sessions: diagnostics passes that find
\* no host diagnostics and no failures, through the sessions of several
\* projects
Resolve ==
    \E fileName \in Files, load \in LoadOutcomes :
        getSemanticDiagnostics(fileName, <<>>, load, [kind |-> "ok", failures |-> <<>>])

NextResolver == Resolve \/ Create

SpecResolver == Init /\ [][NextResolver]_vars

----------------------------------------------------------------------------
(* Overlap resolution on its own: getNonOverlappingReplacements applied to   *)
(* the registry entries a lint pass can leave behind                         *)

\* the replacements inside offsets 0..MaxPos
Replacements ==
    {Repl(s, l) : s \in 0..MaxPos, l \in 0..MaxPos} \cap
    {r \in [start : 0..MaxPos, length : 0..MaxPos, text : {"x"}] : ReplEnd(r) <= MaxPos}

\* replacements within one Fix do not overlap and ascend by position
IsAscending(repls) ==
    \A i \in 1..(Len(repls) - 1) : repls[i + 1].start >= ReplEnd(repls[i])

\* fixes of one replacement, and of two
Fixes ==
    {Fix("array", <<r>>) : r \in Replacements} \cup
    {Fix("array", rs) : rs \in {qs \in Replacements \X Replacements : IsAscending(qs)}}

\* the Map recordCodeAction builds from failures carrying the fixes fs: the
\* i-th failure spans [i,i], so every failure has a key of its own
EntryOf(fs) ==
    [i \in 1..Len(fs) |->
        [key |-> computeKey(i, i),
         value |-> Failure(<<"semicolon">>, i, i, "error", PathA, fs[i])]]

\* the failures of the spans [0,5], [3,8], [10,12]
ExampleEntry ==
    EntryOf(<<Fix("array", <<Repl(0, 5)>>), Fix("array", <<Repl(3, 5)>>),
              Fix("array", <<Repl(10, 2)>>)>>)

RegistryEntries ==
    {EntryOf(fs) : fs \in UNION {[1..k -> Fixes] : k \in 1..MaxFixes}} \cup {ExampleEntry}

InitOverlap ==
    /\ codeFixActions = <<>>
    /\ configCache = EmptyCache
    /\ config = DefaultBlock
    /\ consoleWarn = "console.warn"
    /\ last = NoCall
    /\ lastFound = [f \in Files |-> <<>>]
    /\ queries = NoQueries
    /\ documentFixes \in RegistryEntries
    /\ sortedFailures = <<>>
    /\ keptFailures = <<>>
    /\ nonOverlapping = <<>>
    /\ pc = "ready"

ResolveOverlaps ==
    /\ pc = "ready"
    /\ \E sorted \in {sortFailures(MapValues(documentFixes))} :
         \E walked \in {walkFailures(sorted, 1, <<>>, <<>>)} :
            /\ sortedFailures' = sorted
            /\ keptFailures' = walked.kept
            /\ nonOverlapping' = getNonOverlappingReplacements(documentFixes)
    /\ pc' = "done"
    /\ UNCHANGED <<documentFixes, pluginVars>>

NextOverlap == ResolveOverlaps

SpecOverlap == InitOverlap /\ [][NextOverlap]_vars

----------------------------------------------------------------------------
(* Properties *)

IsDiagnosticsCall == last.op = "getSemanticDiagnostics"
IsCodeFixesCall == last.op = "getCodeFixesAtPosition"

\* the registry entry of a file as a Map, empty when the file has none
EntryFor(fileName) ==
    IF MapHas(codeFixActions, fileName) THEN MapGet(codeFixActions, fileName)[1] ELSE <<>>

\* a failure carries a fix with at least one replacement
HasFix(problem) == problem.fix.shape # "none" /\ Len(problem.fix.repls) > 0

\* C1: every tslint fix action getCodeFixesAtPosition(f, ...) returns is built
\* only from failures found by the most recent getSemanticDiagnostics(f) call,
\* also when that call short-circuited.
C1_NoStaleFixes ==
    IsCodeFixesCall => last.builtFrom \subseteq Range(lastFound[last.fileName[1]])

\* C2: no exception of the plugin's own processing reaches the host: when
\* configuration loading, linting, the source-file lookup or fix construction
\* fails, the operation returns the host's original result.
C2_FailuresDegradeToHostResult ==
    /\ ~last.threw
    /\ (last.exit \in {"configFailed", "lintFailed"} \/ ~last.sourceFile)
          => last.ret = last.prior

\* C3: getSemanticDiagnostics returns the host's diagnostics as an unmodified
\* prefix followed by exactly one diagnostic per lint failure whose origin
\* file normalizes to the queried file, in the linter's order; with no such
\* failure it returns exactly the host's diagnostics.
C3_PriorThenOnePerFailure ==
    IsDiagnosticsCall =>
        LET fileName == last.fileName[1]
            reported == IF last.lintRan THEN last.lint.failures ELSE <<>>
            survivors == SelectSeq(reported,
                             LAMBDA f : normalize(f.fileName) = normalize(fileName))
            n == Len(last.prior)
        IN  /\ Len(last.ret) = n + Len(survivors)
            /\ IsPrefix(last.prior, last.ret)
            /\ \A i \in 1..Len(survivors) :
                  /\ last.ret[n + i].source = "tslint"
                  /\ last.ret[n + i].code = TSLINT_ERROR_CODE
                  /\ last.ret[n + i].file = fileName
                  /\ last.ret[n + i].start = survivors[i].start
                  /\ last.ret[n + i].length = survivors[i].end - survivors[i].start
            /\ (survivors = <<>> => last.ret = last.prior)

C3_Witness ==
    /\ IsDiagnosticsCall
    /\ last.exit = "augmented"
    /\ Len(last.prior) > 0
    /\ Len(last.ret) = Len(last.prior) + 2
    /\ \E i \in 1..Len(last.lint.failures) :
          last.lint.failures[i].fileName # last.fileName[1]

\* C4: with the option suppressWhileTypeErrorsPresent true and host
\* diagnostics present, getSemanticDiagnostics returns the host's diagnostics
\* unchanged and never runs the linter.
C4_SuppressedWhileTypeErrors ==
    (IsDiagnosticsCall /\ config.suppressWhileTypeErrorsPresent /\ Len(last.prior) > 0)
        => (last.ret = last.prior /\ ~last.lintRan)

\* C5: when the linter throws, the call returns the host's diagnostics and
\* the registry has no entry for the file when it returns.
C5_LintThrowLeavesNoEntry ==
    (IsDiagnosticsCall /\ last.lintRan /\ last.lint.kind = "throws")
        => /\ last.ret = last.prior
           /\ ~MapHas(codeFixActions, last.fileName[1])

C5_Witness ==
    /\ IsDiagnosticsCall
    /\ last.lintRan
    /\ last.lint.kind = "throws"
    /\ last.hadEntry
    /\ Len(last.prior) > 0

\* C6: when configuration resolution fails (the load throws, or reports an
\* error), the failure is logged, the linter is not invoked and the host's
\* diagnostics are returned.
C6_ConfigFailureShortCircuits ==
    (IsDiagnosticsCall /\ last.loadTried /\ last.load \in {"throws", "error"})
        => /\ \E i \in 1..Len(last.log) :
                 last.log[i][1] = "tslint: Cannot read tslint configuration"
           /\ ~last.lintRan
           /\ last.ret = last.prior

C6_Witness ==
    /\ IsDiagnosticsCall
    /\ last.loadTried
    /\ last.load = "error"
    /\ last.exit = "configFailed"
    /\ Len(last.prior) > 0

\* C7: for a file matching an exclusion glob of the resolved configuration,
\* getSemanticDiagnostics leaves no registry entry for the file and appends
\* no diagnostic, whatever the linter would report.
C7_ExcludedFileUntouched ==
    (/\ IsDiagnosticsCall
     /\ last.configuration # <<>>
     /\ \E i \in 1..Len(last.configuration[1].exclude) :
           Match(last.configuration[1].exclude[i], last.fileName[1]))
        => /\ last.ret = last.prior
           /\ ~MapHas(codeFixActions, last.fileName[1])

C7_Witness ==
    /\ IsDiagnosticsCall
    /\ last.exit = "excluded"
    /\ Len(last.prior) > 0
    /\ \E i \in 1..Len(last.lint.failures) : HasFix(last.lint.failures[i])

\* C8: two successive getSemanticDiagnostics(f) calls on an unchanged file
\* return the same appended diagnostics, and after the second the registry
\* for f holds exactly the failures the latest call recorded: its fixable
\* failures, one per span, nothing carried over.
C8_Idempotent ==
    (IsDiagnosticsCall /\ last.repeated) =>
        LET entry == EntryFor(last.fileName[1])
            latest == {last.found[i] : i \in
                          {j \in 1..Len(last.found) :
                              /\ HasFix(last.found[j])
                              /\ ~\E k \in (j + 1)..Len(last.found) :
                                    /\ HasFix(last.found[k])
                                    /\ last.found[k].start = last.found[j].start
                                    /\ last.found[k].end = last.found[j].end}}
        IN  /\ last.sameAppended
            /\ Range(MapValues(entry)) = latest
            /\ Len(entry) = Cardinality(latest)

\* C15: the category of every diagnostic the plugin appends is Warning when
\* alwaysShowRuleFailuresAsWarnings is true, whatever the failure's severity;
\* otherwise Error when the failure carries the severity 'error'; otherwise
\* Warning.
C15_SeverityPrecedence ==
    (IsDiagnosticsCall /\ last.exit = "augmented") =>
        /\ Len(last.ret) = Len(last.prior) + Len(last.found)
        /\ \A i \in 1..Len(last.found) :
              last.ret[Len(last.prior) + i].category =
                  IF config.alwaysShowRuleFailuresAsWarnings THEN "Warning"
                  ELSE IF last.found[i].severity = "error" THEN "Error"
                  ELSE "Warning"

C15_Witness ==
    /\ IsDiagnosticsCall
    /\ last.exit = "augmented"
    /\ config.alwaysShowRuleFailuresAsWarnings
    /\ \E i \in 1..Len(last.found) :
          /\ last.found[i].severity = "error"
          /\ last.ret[Len(last.prior) + i].category = "Warning"
    /\ \E i \in 1..Len(last.found) : last.found[i].severity = "warning"

----------------------------------------------------------------------------
(* Properties of the Configuration Resolver *)

\* the call asked getConfiguration for a configuration
Queried ==
    IsDiagnosticsCall /\ last.exit \notin {"suppressed", "definitionFile"}

\* getConfiguration answered from the cache
Hit == Queried /\ ~last.loadTried

\* C16, as claimed: a lookup hits iff the queried path is the path of the
\* most recent query, and after every query the cache holds the entry of
\* the path queried.
MostRecentQueryHeld ==
    Queried' =>
        /\ Hit' <=> (queries.latest = last'.fileName)
        /\ configCache'.filePath = last'.fileName

C16_MostRecentQuery == [][MostRecentQueryHeld]_vars

\* C16, amended: the cache holds one entry, that of the most recent query
\* that loaded a configuration; a lookup hits iff the queried path is the
\* path of that query and then leaves the cache as it is; a miss that loads
\* replaces the entry by that of the queried path, a miss whose load fails
\* leaves the held entry in place.
MostRecentLoadHeld ==
    Queried' =>
        /\ Hit' <=> (queries.loaded = last'.fileName)
        /\ (Hit' \/ last'.exit = "configFailed") => configCache' = configCache
        /\ (~Hit' /\ last'.exit # "configFailed") =>
              /\ configCache'.filePath = last'.fileName
              /\ configCache'.configuration = last'.configuration
              /\ last'.configuration # <<>>

C16_MostRecentLoad ==
    [](configCache.filePath = queries.loaded) /\ [][MostRecentLoadHeld]_vars

\* a load failed for one path while the entry of another was held
C16_Witness ==
    /\ Queried
    /\ last.exit = "configFailed"
    /\ configCache.configuration # <<>>
    /\ configCache.filePath # last.fileName
    /\ queries.latest # queries.loaded

\* C17: unless the session's disableNoUnusedVariableRule is false, a
\* configuration getConfiguration returns has no 'no-unused-variable' rule in
\* rules or jsRules; when it is false the rule sets are as loaded.
C17_RuleRemovedUnlessOptedOut ==
    (Queried /\ last.configuration # <<>> /\ last.configuration[1].rulesAreMap) =>
        LET configuration == last.configuration[1]
            asLoaded == findConfigurationResults(config.configFile, last.fileName[1])
        IN  /\ config.disableNoUnusedVariableRule # "false" =>
                  "no-unused-variable" \notin configuration.rules \cup configuration.jsRules
            /\ config.disableNoUnusedVariableRule = "false" =>
                  /\ configuration.rules = asLoaded.rules
                  /\ configuration.jsRules = asLoaded.jsRules

\* what getConfiguration returns to the session of the call for `filePath`
\* when nothing is cached
FreshResolution(filePath) ==
    getConfiguration(EmptyCache, config, filePath, config.configFile, "ok").configuration

\* C25: the configuration a getSemanticDiagnostics call uses is the one an
\* uncached resolution with the configFile and disableNoUnusedVariableRule
\* options of the calling session produces, whatever sessions were served
\* before.
C25_CacheTransparent ==
    (IsDiagnosticsCall /\ last.configuration # <<>>) =>
        last.configuration = FreshResolution(last.fileName[1])

----------------------------------------------------------------------------
(* Properties of the console.warn redirection *)

\* C18: console.warn is redirected while the linter runs and at no other
\* time: after every getSemanticDiagnostics call, whether the linter
\* completed, threw or was not run, console.warn is what it was before the
\* call.
C18_ConsoleWarnRestored ==
    /\ consoleWarn = "console.warn"
    /\ IsDiagnosticsCall =>
          /\ <<consoleWarn>> = last.warnBefore
          /\ last.warnDuring = IF last.lintRan THEN <<"captureWarnings">> ELSE <<>>

C18_Witness ==
    /\ IsDiagnosticsCall
    /\ last.lintRan
    /\ last.lint.kind = "throws"
    /\ last.warnDuring = <<"captureWarnings">>
    /\ last.warnBefore = <<"console.warn">>

----------------------------------------------------------------------------
(* Properties of the fix actions *)

\* the actions the plugin appended to the host's fixes, and those of one kind
Appended == SubSeq(last.ret, Len(last.prior) + 1, Len(last.ret))
ActionsOfKind(kind) == SelectSeq(Appended, LAMBDA a : a.description[1] = kind)

\* the failure the registry holds at the queried span
Located == MapGet(EntryFor(last.fileName[1]), computeKey(last.span[1], last.span[2]))

\* a file change that applies exactly the replacements of a failure's fix
ChangeCarries(change, failure) ==
    /\ change.fileName = last.fileName[1]
    /\ Len(change.textChanges) = Len(failure.fix.repls)
    /\ \A i \in 1..Len(failure.fix.repls) :
          /\ change.textChanges[i].newText = failure.fix.repls[i].text
          /\ change.textChanges[i].span.start = failure.fix.repls[i].start
          /\ change.textChanges[i].span.length = failure.fix.repls[i].length

OfRule(failures, ruleName) == SelectSeq(failures, LAMBDA f : f.ruleName = ruleName)

Rank(action) ==
    CASE action.description[1] = "Fix" -> 1
      [] action.description[1] = "Fix all" -> 2
      [] action.description[1] = "Fix all auto-fixable tslint failures" -> 3
      [] action.description[1] = "Disable rule" -> 4
      [] OTHER -> 0

\* C12: what getCodeFixesAtPosition returns is the host's fixes, in their
\* order, followed by tslint actions in the order single fix, fix-all-of-rule,
\* fix-all-auto-fixable, disable-rule-on-line, each at most once.
C12_HostFirstFixedOrder ==
    (IsCodeFixesCall /\ ~last.threw) =>
        /\ IsPrefix(last.prior, last.ret)
        /\ \A i \in 1..Len(Appended) : Rank(Appended[i]) > 0
        /\ \A i, j \in 1..Len(Appended) :
              i < j => Rank(Appended[i]) < Rank(Appended[j])

C12_Witness ==
    /\ IsCodeFixesCall
    /\ Len(last.prior) > 0
    /\ Len(Appended) = 4

\* C13: every failure the latest pass appended a diagnostic for is in the
\* registry under its span, and getCodeFixesAtPosition at the span of such a
\* failure offers the disable-rule-on-line action.
C13_EveryDiagnosticHasEntry ==
    /\ (IsDiagnosticsCall /\ last.exit = "augmented") =>
            \A i \in 1..Len(last.found) :
                MapHas(EntryFor(last.fileName[1]),
                       computeKey(last.found[i].start, last.found[i].end))
    /\ (/\ IsCodeFixesCall
        /\ last.exit \notin {"suppressed", "threw"}
        /\ \E i \in 1..Len(lastFound[last.fileName[1]]) :
              /\ lastFound[last.fileName[1]][i].start = last.span[1]
              /\ lastFound[last.fileName[1]][i].end = last.span[2])
            => Len(ActionsOfKind("Disable rule")) = 1

----------------------------------------------------------------------------
(* Properties of the pass-through operations *)

IsDelegatedCall == last.op \in OtherOperations

Forwarded ==
    IsDelegatedCall =>
        /\ last.delegated =
              <<[op |-> last.op, arguments |-> last.arguments, this |-> "oldLS"]>>
        /\ last.ret = last.prior

LeavesPluginState ==
    (last'.op \in OtherOperations) =>
        /\ codeFixActions' = codeFixActions
        /\ configCache' = configCache

\* C14: an operation other than getSemanticDiagnostics and
\* getCodeFixesAtPosition is forwarded to the original language service
\* once, with the same arguments, returns what it returned, and changes
\* neither the registry nor the configuration cache.
C14_PassThrough == []Forwarded /\ [][LeavesPluginState]_vars

C14_Witness ==
    /\ IsDelegatedCall
    /\ Len(last.arguments) = 2
    /\ Len(last.ret) > 0
    /\ Len(codeFixActions) > 0
    /\ configCache # EmptyCache

\* the position a file change starts at
ChangeStart(change) == change.textChanges[1].span.start

\* C19, as claimed: the changes of the fix-all-of-rule action ascend by
\* position in the file.
C19_FileOrder ==
    (IsCodeFixesCall /\ Len(ActionsOfKind("Fix all")) = 1) =>
        LET changes == ActionsOfKind("Fix all")[1].changes
        IN  \A i \in 1..(Len(changes) - 1) :
                ChangeStart(changes[i]) <= ChangeStart(changes[i + 1])

\* the spans of the fixable failures of a pass, each at its first report
FirstReports(found) ==
    LET fixable == SelectSeq(found, HasFix)
        firsts == {i \in 1..Len(fixable) :
                      ~\E j \in 1..(i - 1) :
                          /\ fixable[j].start = fixable[i].start
                          /\ fixable[j].end = fixable[i].end}
        nth(k) == CHOOSE i \in firsts : Cardinality({j \in firsts : j < i}) = k - 1
    IN  [k \in 1..Cardinality(firsts) |->
            computeKey(fixable[nth(k)].start, fixable[nth(k)].end)]

\* C19, amended: the fix-all-of-rule action lists the replacement sets of
\* the recorded failures of the rule in the order the registry holds them,
\* and the registry holds the spans of a pass in the order of their first
\* report by the linter, whatever their positions.
C19_ReportOrder ==
    /\ (IsDiagnosticsCall /\ last.exit = "augmented") =>
          LET entry == EntryFor(last.fileName[1])
          IN  [k \in 1..Len(entry) |-> entry[k].key] = FirstReports(last.found)
    /\ (IsCodeFixesCall /\ Len(ActionsOfKind("Fix all")) = 1) =>
          LET changes == ActionsOfKind("Fix all")[1].changes
              same == OfRule(MapValues(EntryFor(last.fileName[1])), Located[1].ruleName)
          IN  /\ Len(changes) = Len(same)
              /\ \A i \in 1..Len(changes) :
                    ChangeStart(changes[i]) = getReplacement(same[i], 1).start

\* the failure reported first lies behind the one reported second
C19_Witness ==
    /\ IsCodeFixesCall
    /\ Len(ActionsOfKind("Fix all")) = 1
    /\ ChangeStart(ActionsOfKind("Fix all")[1].changes[1])
          > ChangeStart(ActionsOfKind("Fix all")[1].changes[2])

\* the one aggregate action applies to the file of the call exactly the
\* replacements overlap resolution selects from the registry entry
AppliesOverlapResolution ==
    LET all == ActionsOfKind("Fix all auto-fixable tslint failures")
        selected == getNonOverlappingReplacements(EntryFor(last.fileName[1]))
    IN  /\ Len(all) = 1
        /\ Len(all[1].changes) = 1
        /\ all[1].changes[1].fileName = last.fileName[1]
        /\ Len(all[1].changes[1].textChanges) = Len(selected)
        /\ \A i \in 1..Len(selected) :
              /\ all[1].changes[1].textChanges[i].newText = selected[i].text
              /\ all[1].changes[1].textChanges[i].span.start = selected[i].start
              /\ all[1].changes[1].textChanges[i].span.length = selected[i].length

\* C20, as claimed: every getCodeFixesAtPosition call on a file with recorded
\* failures returns exactly one fix-all-auto-fixable action, whose
\* replacements are the overlap-resolution result over the recorded failures.
C20_AlwaysAttempted ==
    (IsCodeFixesCall /\ last.hadEntry) => (~last.threw /\ AppliesOverlapResolution)

\* C20, amended: on a file with recorded failures, a call that the
\* suppression option short-circuits (the host returned fixes of its own)
\* returns the host's fixes and nothing else; a call that locates a failure
\* while the source file cannot be looked up throws; every other call,
\* whether or not a failure is recorded at the span, returns exactly one
\* fix-all-auto-fixable action carrying the overlap-resolution result.
C20_AttemptedUnlessShortCircuited ==
    (IsCodeFixesCall /\ last.hadEntry) =>
        IF config.supressWhileTypeErrorsPresent /\ Len(last.prior) > 0
        THEN ~last.threw /\ last.ret = last.prior
        ELSE IF Located # <<>> /\ ~last.sourceFile
        THEN last.threw
        ELSE ~last.threw /\ AppliesOverlapResolution

\* no failure is recorded at the queried span, and the host has fixes
C20_Witness ==
    /\ IsCodeFixesCall
    /\ last.hadEntry
    /\ Located = <<>>
    /\ Len(last.prior) > 0
    /\ Len(Appended) = 1
    /\ AppliesOverlapResolution

----------------------------------------------------------------------------
(* Properties of the Problem Registry *)

\* the failures of the latest pass on the file of the call that lie on the
\* queried span and carry no fix, or a fix without replacements
UnfixableAtSpan ==
    {f \in Range(lastFound[last.fileName[1]]) :
        /\ ~HasFix(f)
        /\ f.start = last.span[1]
        /\ f.end = last.span[2]}

\* a Map holds each key once
KeysDistinct(m) == \A i, j \in 1..Len(m) : m[i].key = m[j].key => i = j

\* the index in `found` of the last fixable failure on the span `key`
LastRecorded(found, key) ==
    CHOOSE j \in 1..Len(found) :
        /\ HasFix(found[j]) /\ computeKey(found[j].start, found[j].end) = key
        /\ \A k \in (j + 1)..Len(found) :
              ~(HasFix(found[k]) /\ computeKey(found[k].start, found[k].end) = key)

\* C22: the registry holds each file once and, for a file, each span once,
\* under the span of the failure it holds there; after a pass that recorded
\* failures, the failure held at a span is the last one the pass recorded
\* with that span.
C22_OnePerSpanLastWins ==
    /\ KeysDistinct(codeFixActions)
    /\ \A e \in Range(codeFixActions) :
          /\ KeysDistinct(e.value)
          /\ \A p \in Range(e.value) : p.key = computeKey(p.value.start, p.value.end)
    /\ (IsDiagnosticsCall /\ last.exit = "augmented") =>
          \A p \in Range(EntryFor(last.fileName[1])) :
              /\ \E j \in 1..Len(last.found) :
                    HasFix(last.found[j])
                    /\ computeKey(last.found[j].start, last.found[j].end) = p.key
              /\ p.value = last.found[LastRecorded(last.found, p.key)]

\* a pass records two failures of one span
C22_Witness ==
    /\ IsDiagnosticsCall
    /\ last.exit = "augmented"
    /\ Len(EntryFor(last.fileName[1])) = 1
    /\ Len(SelectSeq(last.found, HasFix)) = 2
    /\ EntryFor(last.fileName[1])[1].value = last.found[2]
    /\ last.found[1] # last.found[2]

\* C23: after every getSemanticDiagnostics(f) call the registry for f holds
\* only failures that call recorded: what earlier calls recorded for f is
\* gone, on every exit path.
C23_ReplacedNeverMerged ==
    IsDiagnosticsCall =>
        Range(MapValues(EntryFor(last.fileName[1]))) \subseteq
            {f \in Range(last.found) : HasFix(f)}

\* the failure was reported for another file than `fileName`
CrossFile(f, fileName) == normalize(f.fileName) # normalize(fileName)

\* C24: a failure whose origin file does not normalize to the queried file
\* gets no diagnostic and is not recorded in the registry for the queried
\* file; when every reported failure is such a failure, the host's
\* diagnostics are returned unchanged.
C24_CrossFileExcluded ==
    /\ \A e \in Range(codeFixActions) :
          \A p \in Range(e.value) : ~CrossFile(p.value, e.key)
    /\ (IsDiagnosticsCall /\ last.lintRan) =>
          LET fileName == last.fileName[1]
              reported == last.lint.failures
              own == {i \in 1..Len(reported) : ~CrossFile(reported[i], fileName)}
          IN  /\ Len(last.ret) = Len(last.prior) + Cardinality(own)
              /\ \A i \in 1..Len(reported) :
                    CrossFile(reported[i], fileName) =>
                        /\ reported[i] \notin Range(last.found)
                        /\ reported[i] \notin Range(MapValues(EntryFor(fileName)))
              /\ own = {} => (last.ret = last.prior /\ ~MapHas(codeFixActions, fileName))

\* every failure the linter reported belongs to another file
C24_Witness ==
    /\ IsDiagnosticsCall
    /\ last.lintRan
    /\ Len(last.lint.failures) > 0
    /\ \A i \in 1..Len(last.lint.failures) :
          CrossFile(last.lint.failures[i], last.fileName[1])
    /\ HasFix(last.lint.failures[1])
    /\ Len(last.prior) > 0
    /\ last.ret = last.prior

\* a getSemanticDiagnostics step leaves what the registry holds for every
\* file other than the queried one as it was
OtherFilesKept ==
    last'.op = "getSemanticDiagnostics" =>
        \A g \in Files \ {last'.fileName[1]} :
            MapGet(codeFixActions', g) = MapGet(codeFixActions, g)

\* C27: getSemanticDiagnostics(f) changes the registry only for f: the
\* entries of every other file are the same before and after the call, on
\* every exit path.
C27_OtherFilesUntouched == [][OtherFilesKept]_vars

\* a pass replaced the entry of its file while another file has an entry
C27_Witness ==
    /\ IsDiagnosticsCall
    /\ last.exit = "augmented"
    /\ last.hadEntry
    /\ MapHas(codeFixActions, last.fileName[1])
    /\ MapHas(codeFixActions, OtherFile(last.fileName[1]))

\* the text changes `changes` begin with the replacements of `failure`
BeginsWith(changes, failure) ==
    LET replacements == getReplacements(failure.fix)
    IN  /\ Len(changes) >= Len(replacements)
        /\ \A i \in 1..Len(replacements) :
              changes[i] = convertReplacementToTextChange(replacements[i])

\* C28: every file the registry has a key for maps to at least one failure,
\* and every failure held has a fix with at least one replacement; so an
\* emitted fix-all-auto-fixable action has at least one text change and
\* begins with the replacements of a failure whose first replacement starts
\* no later than that of any other failure held for the file.
C28_RegistryWellFormed ==
    /\ \A e \in Range(codeFixActions) :
          /\ Len(e.value) > 0
          /\ \A p \in Range(e.value) :
                HasFix(p.value) /\ Len(getReplacements(p.value.fix)) >= 1
    /\ (IsCodeFixesCall /\ ActionsOfKind("Fix all auto-fixable tslint failures") # <<>>) =>
          LET changes == ActionsOfKind("Fix all auto-fixable tslint failures")[1]
                             .changes[1].textChanges
              held == Range(MapValues(EntryFor(last.fileName[1])))
          IN  /\ Len(changes) >= 1
              /\ \E v \in held :
                    /\ \A w \in held :
                          getReplacement(v, 1).start <= getReplacement(w, 1).start
                    /\ BeginsWith(changes, v)

\* of two failures held, the one starting later is dropped
C28_Witness ==
    /\ IsCodeFixesCall
    /\ ActionsOfKind("Fix all auto-fixable tslint failures") # <<>>
    /\ Len(EntryFor(last.fileName[1])) = 2
    /\ Len(ActionsOfKind("Fix all auto-fixable tslint failures")[1]
               .changes[1].textChanges) = 1

\* two text changes replace a common stretch of the file
Collide(a, b) ==
    /\ a.span.start < b.span.start + b.span.length
    /\ b.span.start < a.span.start + a.span.length

\* C29: when the fix of every recorded failure of the located failure's rule
\* is free of overlaps in itself, no two text changes of the fix-all-of-rule
\* action replace a common stretch of the file.
C29_FixAllOfRuleConflictFree ==
    (/\ IsCodeFixesCall
     /\ ActionsOfKind("Fix all") # <<>>
     /\ \A v \in Range(OfRule(MapValues(EntryFor(last.fileName[1])), Located[1].ruleName)) :
           IsAscending(getReplacements(v.fix)))
        => LET changes == ActionsOfKind("Fix all")[1].changes
               all == Concat([i \in 1..Len(changes) |-> changes[i].textChanges])
           IN  \A i, j \in 1..Len(all) : i # j => ~Collide(all[i], all[j])

\* C21: a failure without a fix, or with a fix whose replacement list is
\* empty, is not recorded, so no fix action is built from it; a pass that
\* finds one and a request for fixes at its span end without an error, the
\* request offering no single fix and no fix-all-of-rule on its account.
C21_UnfixableContributesNothing ==
    /\ (IsDiagnosticsCall /\ last.exit = "augmented") =>
          /\ ~last.threw
          /\ \A i \in 1..Len(last.found) :
                ~HasFix(last.found[i]) =>
                    last.found[i] \notin Range(MapValues(EntryFor(last.fileName[1])))
    /\ IsCodeFixesCall =>
          /\ \A f \in last.builtFrom : HasFix(f)
          /\ (UnfixableAtSpan # {} /\ Located = <<>>) =>
                /\ ~last.threw
                /\ ActionsOfKind("Fix") = <<>>
                /\ ActionsOfKind("Fix all") = <<>>

\* fixes are asked at the span of a failure whose fix is an empty list,
\* while the file has a fixable failure elsewhere
C21_Witness ==
    /\ IsCodeFixesCall
    /\ last.exit = "fixAll"
    /\ \E f \in UnfixableAtSpan : f.fix.shape \in {"v4", "array"}
    /\ Len(Appended) = 1

\* a getCodeFixesAtPosition step leaves the registry, the order of its
\* entries included, and the configuration cache as they were, and when the
\* call before it had the same arguments and the same answers of the host,
\* it ends the same way
CodeFixesReadsOnly ==
    last'.op = "getCodeFixesAtPosition" =>
        /\ codeFixActions' = codeFixActions
        /\ configCache' = configCache
        /\ (/\ last.op = "getCodeFixesAtPosition"
            /\ last'.fileName = last.fileName
            /\ last'.span = last.span
            /\ last'.prior = last.prior
            /\ last'.sourceFile = last.sourceFile)
              => (last'.ret = last.ret /\ last'.threw = last.threw)

\* C26: getCodeFixesAtPosition is read-only with respect to the plugin's
\* state: the Problem Registry, with the iteration order of every file's
\* entries, and the configuration cache are the same after the call, so a
\* repeated call with the same arguments and host answers returns an equal
\* fix list.
C26_CodeFixesReadOnly == [][CodeFixesReadsOnly]_vars

\* fixes were built from an entry whose failures are not held in the order
\* of their first replacements
C26_Witness ==
    /\ IsCodeFixesCall
    /\ last.exit = "located"
    /\ Len(EntryFor(last.fileName[1])) = 2
    /\ getReplacement(EntryFor(last.fileName[1])[1].value, 1).start
          > getReplacement(EntryFor(last.fileName[1])[2].value, 1).start
    /\ configCache.configuration # <<>>

----------------------------------------------------------------------------
(* Properties of overlap resolution (SpecOverlap) *)

FirstStart(failure) == failure.fix.repls[1].start

\* every recorded fix has replacements at ascending starts, none reaching
\* into the next
FixesAscendStrictly ==
    \A e \in Range(documentFixes) :
        \A i \in 1..(Len(e.value.fix.repls) - 1) :
            /\ e.value.fix.repls[i + 1].start > e.value.fix.repls[i].start
            /\ e.value.fix.repls[i + 1].start >= ReplEnd(e.value.fix.repls[i])

\* C9, as claimed: when the replacements of each recorded fix ascend and do
\* not overlap, any two consecutive replacements of the result are strictly
\* apart, the later one starting after the earlier one ends.
C9_StrictlyApart ==
    (pc = "done" /\ FixesAscendStrictly) =>
        \A i \in 1..(Len(nonOverlapping) - 1) :
            nonOverlapping[i + 1].start > ReplEnd(nonOverlapping[i])

\* C9, amended: the result is the replacements of the failures taken, in
\* order; no replacement starts before the one preceding it ends, and the
\* first replacement of a failure starts strictly after the end of the
\* replacement preceding it (replacements of one fix may touch).
C9_NoOverlap ==
    pc = "done" =>
        /\ nonOverlapping =
              Concat([k \in 1..Len(keptFailures) |-> keptFailures[k].fix.repls])
        /\ \A i \in 1..(Len(nonOverlapping) - 1) :
              nonOverlapping[i + 1].start >= ReplEnd(nonOverlapping[i])
        /\ \A k \in 1..(Len(keptFailures) - 1) :
              FirstStart(keptFailures[k + 1]) > ReplEnd(Last(keptFailures[k].fix.repls))

\* two failures taken, one dropped, and a fix whose replacements touch
C9_Witness ==
    /\ pc = "done"
    /\ Len(keptFailures) = 2
    /\ Len(sortedFailures) = 3
    /\ \E i \in 1..(Len(nonOverlapping) - 1) :
          nonOverlapping[i + 1].start = ReplEnd(nonOverlapping[i])

\* the replacements accumulated before the k-th sorted failure under `keep`
AccumulatedBefore(keep, k) ==
    Concat([j \in 1..(k - 1) |->
               IF keep[j] THEN sortedFailures[j].fix.repls ELSE <<>>])

Count(s, x) == Cardinality({i \in 1..Len(s) : s[i] = x})

IsPermutation(s, t) ==
    /\ Len(s) = Len(t)
    /\ \A x \in Range(s) \cup Range(t) : Count(s, x) = Count(t, x)

\* C10: the failures are walked in ascending order of their first
\* replacement's start; a failure is dropped as a whole iff that start is at
\* most the end of the last replacement accumulated so far, and otherwise
\* all its replacements are appended.
C10_GreedyEarliestStart ==
    pc = "done" =>
        LET n == Len(sortedFailures)
        IN  /\ IsPermutation(sortedFailures, MapValues(documentFixes))
            /\ \A i \in 1..(n - 1) :
                  FirstStart(sortedFailures[i]) <= FirstStart(sortedFailures[i + 1])
            /\ \E keep \in [1..n -> BOOLEAN] :
                  /\ \A k \in 1..n :
                        LET acc == AccumulatedBefore(keep, k)
                        IN  ~keep[k] <=> (/\ acc # <<>>
                                          /\ FirstStart(sortedFailures[k]) <= ReplEnd(Last(acc)))
                  /\ nonOverlapping = AccumulatedBefore(keep, n + 1)

\* the spans [0,5], [3,8], [10,12] yield the replacements of the first and
\* the third failure
C10_Witness ==
    /\ pc = "done"
    /\ documentFixes = ExampleEntry
    /\ nonOverlapping = <<Repl(0, 5), Repl(10, 2)>>

\* the orders in which a Map of n entries can have been filled
InsertionOrders(n) == Permutations(1..n)

\* the registry entry with the same failures inserted in the order p
Reinserted(p) == [i \in 1..Len(documentFixes) |-> documentFixes[p[i]]]

\* the failures taken that start at offset s
KeptAt(s) == {k \in 1..Len(keptFailures) : FirstStart(keptFailures[k]) = s}

KeepsTies(p) ==
    \A i, j \in 1..Len(documentFixes) :
        (/\ i < j
         /\ FirstStart(documentFixes[p[i]].value) = FirstStart(documentFixes[p[j]].value))
            => p[i] < p[j]

====
